---- MODULE Spec2Model ----
(***************************************************************************)
(* Travel booking assistant: the streaming parser                          *)
(* (cortex_analyst_sql_stream), the extraction functions                   *)
(* (extract_trip_info_with_claude, extract_cities_with_claude), the agent  *)
(* pipelines (flight, hotel, activity) and the orchestrator (main of       *)
(* streamlit.py), modelled from the Python sources.                        *)
(***************************************************************************)
EXTENDS Integers, Sequences, FiniteSets, TLC

\* ------------------------------------------------------------------ bounds
\* Longest input stream (number of lines) the parser is driven with.
MaxLines == 4
\* Longest list literal in a model output text (the destination cities).
MaxCities == 2

\* Python's None, for the optional fields that hold text.
None == "None"

VARIABLES
    \* --- cortex_analyst_sql_stream (one generator run)
    input,        \* the lines iter_lines has delivered so far
    prev_event,   \* the local prev_event
    emitted,      \* the values the generator has yielded so far
    pst,          \* "init" | "reading" | then how the generator ended:
                  \* "done" (break), "eof" (iter_lines exhausted), "failed"
    \* --- extract_trip_info_with_claude / extract_cities_with_claude
    response,     \* what bedrock.invoke_model gave: a failure or a text
    xpc,          \* "ready" | "trip" | "cities"
    xres,         \* what the function returned (or that it raised)
    \* --- main of streamlit.py
    mpc,          \* the position of the main thread
    hotel_cities, \* the local hotel_cities
    flight_future, hotel_futures, activity_future,
    shown,        \* the sections rendered so far: the aggregate
    \* --- agent(query) of the flight and hotel agents (one call)
    alines,       \* the lines of the response the call will be given
    acall,        \* what the services gave to the call (NoCall before it)
    ares,         \* what the call returned (or that it raised)
    \* --- the AgentCore memory the agents of streamlit.py are created with
    store,        \* the turns kept for each (actor_id, session_id)
    mem_log       \* the calls made on memory_client, in order

vars == <<input, prev_event, emitted, pst, response, xpc, xres,
          mpc, hotel_cities, flight_future, hotel_futures, activity_future, shown,
          alines, acall, ares, store, mem_log>>

parserVars == <<input, prev_event, emitted, pst>>
extractVars == <<response, xpc, xres>>
mainVars == <<mpc, hotel_cities, flight_future, hotel_futures, activity_future, shown>>
agentVars == <<alines, acall, ares>>
memVars == <<store, mem_log>>

\* ------------------------------------------------------- the wire format
\* A line of the response: its prefix ("event:", "data:", none) and the rest.
\*   [tag |-> "event", body |-> label]   the line "event: <label>"
\*   [tag |-> "data",  body |-> b]       the line "data: <b>"
\*   [tag |-> "blank", body |-> ""]      an empty line
\*   [tag |-> "other", body |-> "id"]    a line with neither prefix
EventLabels == {"message.delta", "error", "done", "status"}
Bodies == {"hi", "tool1", "tool2", "tool_text", "tool_empty", "scalar", "bad"}
Lines ==
    [tag : {"event"}, body : EventLabels] \cup [tag : {"data"}, body : Bodies]
        \cup {[tag |-> "blank", body |-> ""], [tag |-> "other", body |-> "id"]}

EventLine(label) == [tag |-> "event", body |-> label]
DataLine(b) == [tag |-> "data", body |-> b]

\* One item of delta.content: a text fragment or a tool result carrying
\* json.text (the interpretation) and json.sql.
TextItem(t) == [type |-> "text", text |-> t, jtext |-> None, jsql |-> None]
ToolItem(t, s) == [type |-> "tool_results", text |-> None, jtext |-> t, jsql |-> s]

\* A value the generator yields: a decoded payload, or the dict {"error": ...}.
Payload(items) == [haserror |-> FALSE, isobj |-> TRUE, content |-> items]
ScalarPayload == [haserror |-> FALSE, isobj |-> FALSE, content |-> <<>>]
ErrorDict == [haserror |-> TRUE, isobj |-> TRUE, content |-> <<>>]

\* json.loads of a data line's body: the bodies the model sends are
\*   hi     {"delta":{"content":[{"type":"text","text":"Hi"}]}}
\*   tool1  {"delta":{"content":[{"type":"tool_results","tool_results":
\*            {"content":[{"type":"json","json":{"text":"interp1","sql":"SELECT 1"}}]}}]}}
\*   tool2  the same with interp2 and SELECT 2
\*   tool_text  the same with "json":{"text":"interp3"} (no sql)
\*   tool_empty the same with "json":{"text":"interp4","sql":""}
\*   scalar 5            (valid JSON that is no object)
\*   bad    {"delta":    (not decodable: json.loads raises)
json_loads(b) ==
    CASE b = "hi" -> [ok |-> TRUE, val |-> Payload(<<TextItem("Hi")>>)]
      [] b = "tool1" -> [ok |-> TRUE, val |-> Payload(<<ToolItem("interp1", "SELECT 1")>>)]
      [] b = "tool2" -> [ok |-> TRUE, val |-> Payload(<<ToolItem("interp2", "SELECT 2")>>)]
      [] b = "tool_text" -> [ok |-> TRUE, val |-> Payload(<<ToolItem("interp3", None)>>)]
      [] b = "tool_empty" -> [ok |-> TRUE, val |-> Payload(<<ToolItem("interp4", "")>>)]
      [] b = "scalar" -> [ok |-> TRUE, val |-> ScalarPayload]
      [] OTHER -> [ok |-> FALSE, val |-> ScalarPayload]

\* line.startswith("event:"), line.startswith("data:"), line.startswith("event: done").
\* A line that starts with "event: done" starts with "event:".
StartsWithEvent(line) == line.tag = "event"
StartsWithData(line) == line.tag = "data"
StartsWithEventDone(line) == line.tag = "event" /\ line.body = "done"
IsBlank(line) == line.tag = "blank"

\* ----------------------------------------- cortex_analyst_sql_stream
\* HandleLine with a decode error ending the loop instead of being skipped.
HandleLine_DecodeErrorBreaks(pe, line) ==
    IF IsBlank(line) THEN [prev_event |-> pe, out |-> <<>>, brk |-> FALSE]
    ELSE IF StartsWithEvent(line)
        THEN [prev_event |-> line.body, out |-> <<>>, brk |-> FALSE]
    ELSE IF StartsWithData(line) /\ pe = "message.delta"
        THEN LET d == json_loads(line.body)
             IN [prev_event |-> pe,
                 out |-> IF d.ok THEN <<d.val>> ELSE <<>>,
                 brk |-> ~d.ok]
    ELSE [prev_event |-> pe, out |-> <<>>, brk |-> FALSE]

\* HandleLine with a blank line forgetting the pending event label.
HandleLine_BlankResets(pe, line) ==
    IF IsBlank(line) THEN [prev_event |-> None, out |-> <<>>, brk |-> FALSE]
    ELSE IF StartsWithEvent(line)
        THEN [prev_event |-> line.body, out |-> <<>>, brk |-> FALSE]
    ELSE IF StartsWithData(line) /\ pe = "message.delta"
        THEN LET d == json_loads(line.body)
             IN [prev_event |-> pe,
                 out |-> IF d.ok THEN <<d.val>> ELSE <<>>,
                 brk |-> FALSE]
    ELSE [prev_event |-> pe, out |-> <<>>, brk |-> FALSE]

\* The body of the for loop, for one line: the new prev_event, what is
\* yielded (a sequence of zero or one value) and whether the loop breaks.
\* The branches are tried in the order of the source.
HandleLine(pe, line) ==
    IF IsBlank(line) THEN [prev_event |-> pe, out |-> <<>>, brk |-> FALSE]
    ELSE IF StartsWithEvent(line)
        THEN [prev_event |-> line.body, out |-> <<>>, brk |-> FALSE]
    ELSE IF StartsWithData(line)
        THEN IF pe = "message.delta"
                THEN LET d == json_loads(line.body)
                     IN [prev_event |-> pe,
                         out |-> IF d.ok THEN <<d.val>> ELSE <<>>,
                         brk |-> FALSE]
                ELSE [prev_event |-> pe, out |-> <<>>, brk |-> FALSE]
    ELSE IF StartsWithEventDone(line)
        THEN [prev_event |-> pe, out |-> <<>>, brk |-> TRUE]
    ELSE [prev_event |-> pe, out |-> <<>>, brk |-> FALSE]

\* requests.post raises (connection refused, timeout): the except clause
\* yields the error dict and the generator ends.
PostFails ==
    /\ pst = "init"
    /\ emitted' = Append(emitted, ErrorDict)
    /\ pst' = "failed"
    /\ UNCHANGED <<input, prev_event>>

\* requests.post returns: prev_event = None and the loop starts.
PostOk ==
    /\ pst = "init"
    /\ prev_event' = None
    /\ pst' = "reading"
    /\ UNCHANGED <<input, emitted>>

\* iter_lines delivers one more line and the loop body runs on it.
ReadLine ==
    /\ pst = "reading"
    /\ Len(input) < MaxLines
    /\ \E line \in Lines :
          LET h == HandleLine(prev_event, line)
          IN /\ input' = Append(input, line)
             /\ prev_event' = h.prev_event
             /\ emitted' = emitted \o h.out
             /\ pst' = IF h.brk THEN "done" ELSE "reading"

\* iter_lines is exhausted (the server closed the response): the loop and
\* the generator end.
StreamEnds ==
    /\ pst = "reading"
    /\ pst' = "eof"
    /\ UNCHANGED <<input, prev_event, emitted>>

\* ReadFails without the except clause: the exception leaves the generator.
ReadFails_Raises ==
    /\ pst = "reading"
    /\ pst' = "raised"
    /\ UNCHANGED <<input, prev_event, emitted>>

\* iter_lines raises while the next line is awaited (connection reset,
\* read timeout): the except clause yields the error dict.
ReadFails ==
    /\ pst = "reading"
    /\ emitted' = Append(emitted, ErrorDict)
    /\ pst' = "failed"
    /\ UNCHANGED <<input, prev_event>>

\* ------------------------------------------------ model output texts
\* The text of a model response, after .strip(), as Python syntax:
\*   str 'Delhi', int 5, none None, name null (a bare identifier),
\*   list [..], tuple (..), dict {'k': v, ..} (items are pairs),
\*   junk: text that is no Python expression ("I cannot determine this.",
\*   the empty text, {'duration': 15 days}).
StrLit(x) == [k |-> "str", s |-> x, items |-> <<>>]
IntLit(x) == [k |-> "int", s |-> x, items |-> <<>>]
NoneLit == [k |-> "none", s |-> "None", items |-> <<>>]
Name(x) == [k |-> "name", s |-> x, items |-> <<>>]
ListLit(xs) == [k |-> "list", s |-> "", items |-> xs]
TupleLit(xs) == [k |-> "tuple", s |-> "", items |-> xs]
Pair(key, v) == [k |-> "pair", s |-> key, items |-> <<v>>]
DictLit(ps) == [k |-> "dict", s |-> "", items |-> ps]
Junk(x) == [k |-> "junk", s |-> x, items |-> <<>>]

SeqsUpTo(S, n) == UNION {[1..m -> S] : m \in 0..n}

RECURSIVE SelectPairs(_)
\* The pairs of a mapping literal that are written (not "absent").
SelectPairs(ps) ==
    IF ps = <<>> THEN <<>>
    ELSE IF Head(ps).items[1].k = "absent" THEN SelectPairs(Tail(ps))
    ELSE <<Head(ps)>> \o SelectPairs(Tail(ps))

Absent == [k |-> "absent", s |-> "", items |-> <<>>]
ListAtoms == {StrLit("Mumbai"), StrLit("Pune"), StrLit("Delhi"), IntLit("5"), Name("null")}
ListTexts == {ListLit(xs) : xs \in SeqsUpTo(ListAtoms, MaxCities)}
TupleTexts == {TupleLit(xs) : xs \in SeqsUpTo({StrLit("Mumbai"), StrLit("Pune")}, MaxCities)}
ScalarTexts == {StrLit("Mumbai"), IntLit("5"), NoneLit, Name("null")}
JunkTexts == {Junk("I cannot determine this."), Junk(""), Junk("{'duration': 15 days}")}
DictTexts ==
    {DictLit(SelectPairs(<<Pair("source_city", src), Pair("dest_cities", dst),
                        Pair("duration", dur), Pair("duration", dup)>>)) :
        src \in {Absent, StrLit("Delhi"), IntLit("5")},
        dst \in {Absent, StrLit("Mumbai"), NoneLit} \cup ListTexts,
        dur \in {Absent, IntLit("5"), NoneLit, Name("null")},
        dup \in {Absent, IntLit("7")}}
Texts == ScalarTexts \cup JunkTexts \cup ListTexts \cup TupleTexts \cup DictTexts

\* What bedrock.invoke_model and the decoding of its body give: an
\* exception, or the text of content[0] ("" when content is empty).
Responses == {[ok |-> FALSE, text |-> Junk("")]} \cup [ok : {TRUE}, text : Texts]

RECURSIVE Wellformed(_)
\* ast.literal_eval accepts the node: it is an expression made of literals
\* only (a bare name other than None, True, False is a ValueError; junk is
\* a SyntaxError).
Wellformed(node) ==
    /\ node.k \notin {"junk", "name", "absent"}
    /\ \A i \in 1..Len(node.items) : Wellformed(node.items[i])

\* Setting d[key] = v on the pairs built so far: a key written twice
\* keeps its first place and takes the later value.
SetKey(ps, key, v) ==
    IF \E i \in 1..Len(ps) : ps[i].s = key
        THEN [i \in 1..Len(ps) |-> IF ps[i].s = key THEN Pair(key, v) ELSE ps[i]]
        ELSE Append(ps, Pair(key, v))

RECURSIVE BuildDict(_, _)
BuildDict(ps, acc) ==
    IF ps = <<>> THEN acc
    ELSE BuildDict(Tail(ps), SetKey(acc, Head(ps).s, Head(ps).items[1]))

\* The value of a well-formed literal (values are depth two at most: the
\* items of a list, tuple or mapping value are scalars or lists of scalars).
Value(node) ==
    IF node.k = "dict" THEN DictLit(BuildDict(node.items, <<>>)) ELSE node

\* ast.literal_eval(text): the value, or an exception.
ast_literal_eval(text) ==
    IF Wellformed(text) THEN [ok |-> TRUE, val |-> Value(text)]
    ELSE [ok |-> FALSE, val |-> NoneLit]

\* str(x) of a scalar value: the text of a string, the digits of an int,
\* "None" for None.
PyStr(v) == StrLit(v.s)

DefaultTripInfo ==
    DictLit(<<Pair("source_city", StrLit("")), Pair("dest_cities", ListLit(<<>>)),
           Pair("duration", NoneLit)>>)

Raised == [raised |-> TRUE, val |-> NoneLit]
Returned(v) == [raised |-> FALSE, val |-> v]

\* extract_trip_info_with_claude without the isinstance(info, dict) test.
extract_trip_info_no_isinstance(resp) ==
    IF ~resp.ok THEN Raised
    ELSE LET info == ast_literal_eval(resp.text)
         IN IF info.ok THEN Returned(info.val) ELSE Returned(DefaultTripInfo)

\* extract_trip_info_with_claude with the type test of the city extraction
\* (isinstance(info, list)) in place of isinstance(info, dict).
extract_trip_info_isinstance_list(resp) ==
    IF ~resp.ok THEN Raised
    ELSE LET info == ast_literal_eval(resp.text)
         IN IF info.ok /\ info.val.k = "list" THEN Returned(info.val)
            ELSE Returned(DefaultTripInfo)

\* extract_trip_info_with_claude: the model call is outside the try; the
\* parsed value is returned when it is a dict, whatever its keys.
extract_trip_info_with_claude(resp) ==
    IF ~resp.ok THEN Raised
    ELSE LET info == ast_literal_eval(resp.text)
         IN IF info.ok /\ info.val.k = "dict" THEN Returned(info.val)
            ELSE Returned(DefaultTripInfo)

\* extract_cities_with_claude returning the parsed list as it is, without
\* str() on its elements.
extract_cities_no_str(resp) ==
    IF ~resp.ok THEN Raised
    ELSE LET cities == ast_literal_eval(resp.text)
         IN IF cities.ok /\ cities.val.k = "list" THEN Returned(cities.val)
            ELSE Returned(ListLit(<<>>))

\* extract_cities_with_claude: the model call is outside the try; a list
\* is returned with str() applied to each element.
extract_cities_with_claude(resp) ==
    IF ~resp.ok THEN Raised
    ELSE LET cities == ast_literal_eval(resp.text)
         IN IF cities.ok /\ cities.val.k = "list"
                THEN Returned(ListLit([i \in 1..Len(cities.val.items) |->
                                        PyStr(cities.val.items[i])]))
                ELSE Returned(ListLit(<<>>))

\* A call of extract_trip_info_with_claude on the response drawn.
CallExtractTripInfo ==
    /\ xpc = "ready"
    /\ xres' = extract_trip_info_with_claude(response)
    /\ xpc' = "trip"
    /\ UNCHANGED response

\* A call of extract_cities_with_claude on the response drawn.
CallExtractCities ==
    /\ xpc = "ready"
    /\ xres' = extract_cities_with_claude(response)
    /\ xpc' = "cities"
    /\ UNCHANGED response

\* ------------------------------------------- the generator, run to its end
\* A whole response: whether requests.post succeeds, the lines the server
\* sends, and how the body ends ("eof", or "fail": reset or read timeout).
RECURSIVE RunLines(_, _, _, _)
\* The for loop from line i on: what is yielded, and whether it ended by break.
RunLines(lines, i, pe, out) ==
    IF i > Len(lines) THEN [out |-> out, brk |-> FALSE]
    ELSE LET h == HandleLine(pe, lines[i])
         IN IF h.brk THEN [out |-> out \o h.out, brk |-> TRUE]
            ELSE RunLines(lines, i + 1, h.prev_event, out \o h.out)

\* list(cortex_analyst_sql_stream(query)) for that response.
cortex_analyst_sql_stream(stream) ==
    IF stream.post = "fail" THEN <<ErrorDict>>
    ELSE LET r == RunLines(stream.lines, 1, None, <<>>)
         IN IF ~r.brk /\ stream.tail = "fail" THEN Append(r.out, ErrorDict)
            ELSE r.out

\* The responses the agents of a run are given.
StreamOf(name) ==
    CASE name = "ok" ->
            [post |-> "ok", tail |-> "eof",
             lines |-> <<EventLine("message.delta"), DataLine("hi"),
                         EventLine("message.delta"), DataLine("tool1"),
                         EventLine("done")>>]
      [] name = "post_fail" -> [post |-> "fail", tail |-> "eof", lines |-> <<>>]
      [] name = "read_fail" ->
            [post |-> "ok", tail |-> "fail",
             lines |-> <<EventLine("message.delta"), DataLine("hi")>>]
      [] name = "no_sql" ->
            [post |-> "ok", tail |-> "eof",
             lines |-> <<EventLine("message.delta"), DataLine("hi"),
                         EventLine("done")>>]
      [] name = "scalar" ->
            [post |-> "ok", tail |-> "eof",
             lines |-> <<EventLine("message.delta"), DataLine("scalar")>>]
StreamNames == {"ok", "post_fail", "read_fail", "no_sql", "scalar"}

RECURSIVE ContentLoop_FirstWins(_, _, _)
\* ContentLoop with interpretation and sql_code set only while they are None.
ContentLoop_FirstWins(content, i, acc) ==
    IF i > Len(content) THEN acc
    ELSE LET item == content[i]
             next ==
                IF item.type = "text"
                    THEN [acc EXCEPT !.streamed_text = Append(@, item.text)]
                ELSE IF item.type = "tool_results"
                    THEN [acc EXCEPT
                            !.interpretation = IF @ = None THEN item.jtext ELSE @,
                            !.sql_code = IF @ = None THEN item.jsql ELSE @]
                ELSE acc
         IN ContentLoop_FirstWins(content, i + 1, next)

\* ------------------------------------------ the flight and hotel agents
RECURSIVE ContentLoop(_, _, _)
\* for content_item in content: the text is appended, a tool result sets
\* interpretation and sql_code (each time one arrives).
ContentLoop(content, i, acc) ==
    IF i > Len(content) THEN acc
    ELSE LET item == content[i]
             next ==
                IF item.type = "text"
                    THEN [acc EXCEPT !.streamed_text = Append(@, item.text)]
                ELSE IF item.type = "tool_results"
                    THEN [acc EXCEPT
                            !.interpretation = IF item.jtext # None THEN item.jtext ELSE @,
                            !.sql_code = IF item.jsql # None THEN item.jsql ELSE @]
                ELSE acc
         IN ContentLoop(content, i + 1, next)

RECURSIVE DataLoop(_, _, _)
\* for data in cortex_analyst_sql_stream(query): "error" in data returns at
\* once; `in` on a value that is no container (a JSON number) is a
\* TypeError, which nothing catches.
DataLoop(events, i, acc) ==
    IF i > Len(events) THEN acc
    ELSE LET data == events[i]
         IN IF ~data.isobj THEN [acc EXCEPT !.st = "raise"]
            ELSE IF data.haserror THEN [acc EXCEPT !.st = "error"]
            ELSE DataLoop(events, i + 1, ContentLoop(data.content, 1, acc))

\* The truth value of an optional text: None and "" are false (`if not sql_code`).
Truthy(x) == x # None /\ x # ""

\* run_sql_on_snowflake: the dataframe ("rows" or "empty"), None on failure.
run_sql_on_snowflake(sqlOut) == IF sqlOut = "fail" THEN None ELSE sqlOut

AgentRaised(query) ==
    [raised |-> TRUE, streamed_text |-> <<>>, interpretation |-> None,
     sql_code |-> None, best_option |-> None, df |-> None,
     ran_sql |-> FALSE, ran_rank |-> FALSE, query |-> query]

\* The agent with an error event re-raised instead of returned as a result.
agent_ErrorEventRaises(query, stream, sqlOut, rankOut) ==
    LET acc == DataLoop(cortex_analyst_sql_stream(stream), 1,
                        [streamed_text |-> <<>>, interpretation |-> None,
                         sql_code |-> None, st |-> "loop"])
        df == run_sql_on_snowflake(sqlOut)
        res == [raised |-> FALSE, streamed_text |-> acc.streamed_text,
                interpretation |-> acc.interpretation, sql_code |-> None,
                best_option |-> None, df |-> None,
                ran_sql |-> FALSE, ran_rank |-> FALSE, query |-> query]
    IN IF acc.st # "loop" THEN AgentRaised(query)
       ELSE IF ~Truthy(acc.sql_code) THEN res
       ELSE IF df = None \/ df = "empty"
           THEN [res EXCEPT !.sql_code = acc.sql_code, !.df = df, !.ran_sql = TRUE]
       ELSE IF rankOut = "fail" THEN [AgentRaised(query) EXCEPT !.ran_sql = TRUE, !.ran_rank = TRUE]
       ELSE [res EXCEPT !.sql_code = acc.sql_code, !.df = df, !.best_option = "best",
                        !.ran_sql = TRUE, !.ran_rank = TRUE]

\* The agent with an error event ending the loop (break) instead of the call.
agent_ErrorEventBreaks(query, stream, sqlOut, rankOut) ==
    LET acc == DataLoop(cortex_analyst_sql_stream(stream), 1,
                        [streamed_text |-> <<>>, interpretation |-> None,
                         sql_code |-> None, st |-> "loop"])
        df == run_sql_on_snowflake(sqlOut)
        res == [raised |-> FALSE, streamed_text |-> acc.streamed_text,
                interpretation |-> acc.interpretation, sql_code |-> None,
                best_option |-> None, df |-> None,
                ran_sql |-> FALSE, ran_rank |-> FALSE, query |-> query]
    IN IF acc.st = "raise" THEN AgentRaised(query)
       ELSE IF ~Truthy(acc.sql_code) THEN res
       ELSE IF df = None \/ df = "empty"
           THEN [res EXCEPT !.sql_code = acc.sql_code, !.df = df, !.ran_sql = TRUE]
       ELSE IF rankOut = "fail" THEN [AgentRaised(query) EXCEPT !.ran_sql = TRUE, !.ran_rank = TRUE]
       ELSE [res EXCEPT !.sql_code = acc.sql_code, !.df = df, !.best_option = "best",
                        !.ran_sql = TRUE, !.ran_rank = TRUE]

\* The agent returning without the generated query when the SQL run gave
\* no dataframe.
agent_DropsQueryOnFailure(query, stream, sqlOut, rankOut) ==
    LET acc == DataLoop(cortex_analyst_sql_stream(stream), 1,
                        [streamed_text |-> <<>>, interpretation |-> None,
                         sql_code |-> None, st |-> "loop"])
        df == run_sql_on_snowflake(sqlOut)
        res == [raised |-> FALSE, streamed_text |-> acc.streamed_text,
                interpretation |-> acc.interpretation, sql_code |-> None,
                best_option |-> None, df |-> None,
                ran_sql |-> FALSE, ran_rank |-> FALSE, query |-> query]
    IN IF acc.st = "raise" THEN AgentRaised(query)
       ELSE IF acc.st = "error" THEN res
       ELSE IF ~Truthy(acc.sql_code) THEN res
       ELSE IF df = None THEN [res EXCEPT !.ran_sql = TRUE]
       ELSE IF df = "empty"
           THEN [res EXCEPT !.sql_code = acc.sql_code, !.df = df, !.ran_sql = TRUE]
       ELSE IF rankOut = "fail" THEN [AgentRaised(query) EXCEPT !.ran_sql = TRUE, !.ran_rank = TRUE]
       ELSE [res EXCEPT !.sql_code = acc.sql_code, !.df = df, !.best_option = "best",
                        !.ran_sql = TRUE, !.ran_rank = TRUE]

\* The agent without the `not df.empty` test before the ranking call.
agent_RanksEmptyRows(query, stream, sqlOut, rankOut) ==
    LET acc == DataLoop(cortex_analyst_sql_stream(stream), 1,
                        [streamed_text |-> <<>>, interpretation |-> None,
                         sql_code |-> None, st |-> "loop"])
        df == run_sql_on_snowflake(sqlOut)
        res == [raised |-> FALSE, streamed_text |-> acc.streamed_text,
                interpretation |-> acc.interpretation, sql_code |-> None,
                best_option |-> None, df |-> None,
                ran_sql |-> FALSE, ran_rank |-> FALSE, query |-> query]
    IN IF acc.st = "raise" THEN AgentRaised(query)
       ELSE IF acc.st = "error" THEN res
       ELSE IF ~Truthy(acc.sql_code) THEN res
       ELSE IF df = None
           THEN [res EXCEPT !.sql_code = acc.sql_code, !.df = df, !.ran_sql = TRUE]
       ELSE IF rankOut = "fail" THEN [AgentRaised(query) EXCEPT !.ran_sql = TRUE, !.ran_rank = TRUE]
       ELSE [res EXCEPT !.sql_code = acc.sql_code, !.df = df, !.best_option = "best",
                        !.ran_sql = TRUE, !.ran_rank = TRUE]

\* agent(query) of create_flight_booking_agent and create_hotel_booking_agent
\* (the same code): the returned tuple, or raised; with what it was called
\* on and which calls it made. sqlOut and rankOut are what the SQL run and
\* the ranking call give when they are made.
agent(query, stream, sqlOut, rankOut) ==
    LET acc == DataLoop(cortex_analyst_sql_stream(stream), 1,
                        [streamed_text |-> <<>>, interpretation |-> None,
                         sql_code |-> None, st |-> "loop"])
        df == run_sql_on_snowflake(sqlOut)
        res == [raised |-> FALSE, streamed_text |-> acc.streamed_text,
                interpretation |-> acc.interpretation, sql_code |-> None,
                best_option |-> None, df |-> None,
                ran_sql |-> FALSE, ran_rank |-> FALSE, query |-> query]
    IN IF acc.st = "raise" THEN AgentRaised(query)
       ELSE IF acc.st = "error" THEN res
       ELSE IF ~Truthy(acc.sql_code) THEN res
       ELSE IF df = None \/ df = "empty"
           THEN [res EXCEPT !.sql_code = acc.sql_code, !.df = df, !.ran_sql = TRUE]
       ELSE IF rankOut = "fail" THEN [AgentRaised(query) EXCEPT !.ran_sql = TRUE, !.ran_rank = TRUE]
       ELSE [res EXCEPT !.sql_code = acc.sql_code, !.df = df, !.best_option = "best",
                        !.ran_sql = TRUE, !.ran_rank = TRUE]

\* What the services give to one run of a flight or hotel agent; a call
\* that is not made gives "unused".
AgentEnvs ==
    {e \in [stream : StreamNames, sql : {"rows", "empty", "fail", "unused"},
            rank : {"ok", "fail", "unused"}] :
        LET r == agent(<<"q">>, StreamOf(e.stream),
                       IF e.sql = "unused" THEN "fail" ELSE e.sql,
                       IF e.rank = "unused" THEN "fail" ELSE e.rank)
        IN /\ (e.sql = "unused") = ~r.ran_sql
           /\ (e.rank = "unused") = ~r.ran_rank}

\* ------------------------------------- one call of a flight or hotel agent
\* The lines a response to the agent's request is made of.
AgentLines ==
    {EventLine("message.delta"), DataLine("hi"), DataLine("tool1"),
     DataLine("tool2"), DataLine("tool_text"), DataLine("tool_empty"),
     DataLine("scalar")}

\* No call yet.
NoCall == [post |-> "none", tail |-> "none", sql |-> "none", rank |-> "none"]

\* The response given to the call: requests.post, the lines, how they end.
StreamGiven(lines, e) == [post |-> e.post, tail |-> e.tail, lines |-> lines]

\* What the services can give to a call whose response has these lines
\* (a call that is not made gives "unused"; no line arrives when
\* requests.post fails).
AgentCalls(lines) ==
    {e \in [post : {"ok", "fail"}, tail : {"eof", "fail"},
            sql : {"rows", "empty", "fail", "unused"},
            rank : {"ok", "fail", "unused"}] :
        LET r == agent(<<"q">>, StreamGiven(lines, e),
                       IF e.sql = "unused" THEN "fail" ELSE e.sql,
                       IF e.rank = "unused" THEN "fail" ELSE e.rank)
        IN /\ e.post = "fail" => (lines = <<>> /\ e.tail = "eof")
           /\ (e.sql = "unused") = ~r.ran_sql
           /\ (e.rank = "unused") = ~r.ran_rank}

\* The service prepares one more line of its response.
ResponseLine ==
    /\ acall = NoCall
    /\ Len(alines) < MaxLines
    /\ \E line \in AgentLines : alines' = Append(alines, line)
    /\ UNCHANGED <<acall, ares>>

\* agent(query) runs on that response, from its first statement to
\* its return (or to the exception that leaves it).
CallAgent ==
    /\ acall = NoCall
    /\ \E e \in AgentCalls(alines) :
          /\ acall' = e
          /\ ares' = agent(<<"q">>, StreamGiven(alines, e), e.sql, e.rank)
    /\ UNCHANGED alines

\* ------------------------------------------------- the activity agent
\* info.get(key, default) on a parsed mapping.
Get(info, key, default) ==
    IF \E i \in 1..Len(info.items) : info.items[i].s = key
        THEN (CHOOSE pr \in {info.items[i] : i \in 1..Len(info.items)} : pr.s = key).items[1]
        ELSE default

\* s.strip().lower() of the city names of the model (none has blanks).
Lower(x) ==
    CASE x = "Delhi" -> "delhi"
      [] x = "Mumbai" -> "mumbai"
      [] x = "Pune" -> "pune"
      [] OTHER -> x

\* Iterating over a str gives its characters.
Chars(x) ==
    CASE x = "Mumbai" -> <<"M", "u", "m", "b", "a", "i">>
      [] x = "Pune" -> <<"P", "u", "n", "e">>
      [] x = "Delhi" -> <<"D", "e", "l", "h", "i">>
      [] OTHER -> <<>>

\* What `for city in dest_cities` iterates over; None and int are not iterable.
Iterable(v) == v.k \in {"list", "tuple", "str"}
Elements(v) ==
    IF v.k = "str" THEN [i \in 1..Len(Chars(v.s)) |-> StrLit(Chars(v.s)[i])]
    ELSE v.items

RECURSIVE FilterSource(_, _)
\* [city for city in dest_cities if city.strip().lower() != source_city.strip().lower()]
\* on elements that are all str, with a str source_city.
FilterSource(cs, src) ==
    IF cs = <<>> THEN <<>>
    ELSE (IF Lower(Head(cs).s) # Lower(src) THEN <<Head(cs).s>> ELSE <<>>)
            \o FilterSource(Tail(cs), src)

ActivityRaised(query) ==
    [raised |-> TRUE, plan_md |-> None, activities_df |-> None,
     searched |-> <<>>, query |-> query,
     called |-> [extract |-> FALSE, session |-> FALSE, search |-> FALSE, plan |-> FALSE]]

\* agent(user_query) of create_activity_planner_agent: the returned tuple
\* ("", "", plan_md, activities_df), or raised; with the cities it searched
\* and the calls it made. env is what each service gives when called:
\* memory (get_last_k_turns), resp (the model's answer to the trip-intent
\* prompt), session (Session.builder...create), search (my_service.search,
\* the same outcome for every city), plan (the day-wise plan call).
activity_agent(user_query, env) ==
    LET trip_info == extract_trip_info_with_claude(env.resp)
        info == trip_info.val
        source_city == Get(info, "source_city", StrLit(""))
        dest_cities == Get(info, "dest_cities", ListLit(<<>>))
        elems == Elements(dest_cities)
        filterOk == /\ Iterable(dest_cities)
                    /\ \A i \in 1..Len(elems) : elems[i].k = "str"
                    /\ (elems # <<>> => source_city.k = "str")
        cities == FilterSource(elems, source_city.s)
        c0 == [extract |-> FALSE, session |-> FALSE, search |-> FALSE, plan |-> FALSE]
        c1 == [c0 EXCEPT !.extract = TRUE]
        c2 == [c1 EXCEPT !.session = TRUE]
        c3 == [c2 EXCEPT !.search = (cities # <<>>)]
        c4 == [c3 EXCEPT !.plan = TRUE]
        R(c) == [ActivityRaised(user_query) EXCEPT !.called = c]
    IN IF env.memory = "fail" THEN R(c0)
       ELSE IF trip_info.raised THEN R(c1)
       ELSE IF ~filterOk THEN R(c1)
       ELSE IF env.session = "fail" THEN R(c2)
       ELSE IF cities # <<>> /\ env.search = "fail" THEN [R(c3) EXCEPT !.searched = cities]
       ELSE IF cities = <<>> \/ env.search = "empty"
           THEN [raised |-> FALSE, plan_md |-> "No activities found.",
                 activities_df |-> "empty", searched |-> cities,
                 query |-> user_query, called |-> c3]
       ELSE IF env.plan = "fail" THEN [R(c4) EXCEPT !.searched = cities]
       ELSE [raised |-> FALSE, plan_md |-> "plan", activities_df |-> "rows",
             searched |-> cities, query |-> user_query, called |-> c4]

\* The answers the model gives to the activity agent's trip-intent prompt.
TripResponseOf(name) ==
    CASE name = "full" ->
            [ok |-> TRUE, text |-> DictLit(<<Pair("source_city", StrLit("Delhi")),
                Pair("dest_cities", ListLit(<<StrLit("Mumbai"), StrLit("Pune")>>)),
                Pair("duration", IntLit("5"))>>)]
      [] name = "with_source" ->
            [ok |-> TRUE, text |-> DictLit(<<Pair("source_city", StrLit("Delhi")),
                Pair("dest_cities", ListLit(<<StrLit("Delhi"), StrLit("Pune")>>)),
                Pair("duration", NoneLit)>>)]
      [] name = "dest_none" ->
            [ok |-> TRUE, text |-> DictLit(<<Pair("source_city", StrLit("Delhi")),
                Pair("dest_cities", NoneLit)>>)]
      [] name = "prose" -> [ok |-> TRUE, text |-> Junk("I cannot determine this.")]
      [] OTHER -> [ok |-> FALSE, text |-> Junk("")]
TripResponseNames == {"full", "with_source", "dest_none", "prose", "fail"}

\* What the services give to one run of the activity agent; a call that is
\* not made gives "unused".
ActivityEnvs ==
    {e \in [memory : {"ok", "fail"}, resp : TripResponseNames \cup {"unused"},
            session : {"ok", "fail", "unused"},
            search : {"rows", "empty", "fail", "unused"},
            plan : {"ok", "fail", "unused"}] :
        LET r == activity_agent(<<"q">>,
                    [memory |-> e.memory, resp |-> TripResponseOf(e.resp),
                     session |-> IF e.session = "unused" THEN "ok" ELSE e.session,
                     search |-> IF e.search = "unused" THEN "rows" ELSE e.search,
                     plan |-> IF e.plan = "unused" THEN "ok" ELSE e.plan])
        IN /\ (e.resp = "unused") = ~r.called.extract
           /\ (e.session = "unused") = ~r.called.session
           /\ (e.search = "unused") = ~r.called.search
           /\ (e.plan = "unused") = ~r.called.plan}

ActivityEnvOf(e) ==
    [memory |-> e.memory, resp |-> TripResponseOf(e.resp),
     session |-> e.session, search |-> e.search, plan |-> e.plan]

\* ------------------------------------------------- main of streamlit.py
\* travel_query, and the query of a hotel task: f"Find hotels in {city}".
travel_query == <<"delhi to mumbai and pune and back">>
HotelQuery(city) == <<"Find hotels in", city>>

\* A future of the executor: not created yet ("none"), submitted
\* ("pending"), or finished ("done") with what the call returned or raised.
\* arg is the argument of the submitted call; fault records what went wrong
\* in the services the call used: "none", "transport" (the streaming
\* request or a read of it failed), "memory" (get_last_k_turns failed) or
\* "other".
NoFuture == [state |-> "none", arg |-> <<>>, fault |-> "none", result |-> AgentRaised(<<>>)]
NoActivityFuture ==
    [state |-> "none", arg |-> <<>>, fault |-> "none", result |-> ActivityRaised(<<>>)]

AgentFault(e) ==
    IF e.stream \in {"post_fail", "read_fail"} THEN "transport"
    ELSE IF e.stream = "ok" /\ e.sql \in {"rows", "empty"} /\ e.rank \in {"ok", "unused"}
        THEN "none"
    ELSE "other"

ActivityFault(e) ==
    IF e.memory = "fail" THEN "memory"
    ELSE IF /\ e.memory = "ok"
       /\ e.resp \in {"full", "with_source"}
       /\ e.session = "ok"
       /\ e.search \in {"rows", "empty", "unused"}
       /\ e.plan \in {"ok", "unused"}
        THEN "none"
    ELSE "other"

\* The service behaviours the runs of the orchestrator are given.
MainAgentEnvs ==
    {e \in AgentEnvs : e.stream \in {"ok", "read_fail"} /\ e.sql # "empty"}
MainActivityEnvs ==
    {e \in ActivityEnvs :
        /\ e.resp \in {"unused", "full", "with_source"}
        /\ e.session # "fail"
        /\ e.search # "fail"}

\* The tuple the activity agent returns, or that it raised.
ActivityOutcome(r) ==
    IF r.raised THEN ActivityRaised(r.query) ELSE [r EXCEPT !.called = ActivityRaised(r.query).called]
Submit(fut, arg) == [fut EXCEPT !.state = "pending", !.arg = arg]

\* The answers the model gives to main's destination-cities prompt: a
\* failure of the call, prose, or a list of city names.
CityResponses ==
    {r \in Responses :
        \/ ~r.ok
        \/ r.text = Junk("I cannot determine this.")
        \/ /\ r.text.k = "list"
           /\ \A i \in 1..Len(r.text.items) :
                 r.text.items[i] \in {StrLit("Mumbai"), StrLit("Pune")}}

Strings(v) == [i \in 1..Len(v.items) |-> v.items[i].s]

\* zip(hotel_cities, hotel_futures) pairing the futures in reverse.
HotelFutureFor_Reversed(futs, i) == futs[Len(futs) + 1 - i]

\* zip(hotel_cities, hotel_futures): the future paired with the i-th city.
HotelFutureFor(futs, i) == futs[i]

HotelsShown == Len(SelectSeq(shown, LAMBDA e : e.domain = "hotel"))

\* ------------------------------------------------ the AgentCore memory
\* Lines 29-34 of streamlit.py: the ids the three agents are created with.
ACTOR_ID == "flight_user_001"
SESSION_ID == "flight_session_001"
Agents == {"flight", "hotel", "activity"}
AgentIds ==
    [a \in Agents |-> [actor_id |-> ACTOR_ID, session_id |-> SESSION_ID]]
ActorSession(a) == <<AgentIds[a].actor_id, AgentIds[a].session_id>>

\* The (actor_id, session_id) pairs the memory holds turns for: the pair of
\* streamlit.py and the pair of another conversation.
StoreKeys == {<<ACTOR_ID, SESSION_ID>>, <<"other_user", "other_session">>}

\* The memory before a run: earlier turns of the user, and those of the
\* other conversation.
InitialStores ==
    {[key \in StoreKeys |->
        IF key = <<ACTOR_ID, SESSION_ID>> THEN <<"turn1">> ELSE <<"turn0">>]}

\* get_recent_context's k.
K == 5

\* memory_client.get_last_k_turns(memory_id, actor_id, session_id, k).
get_last_k_turns(st, key, k) ==
    IF Len(st[key]) <= k THEN st[key]
    ELSE SubSeq(st[key], Len(st[key]) - k + 1, Len(st[key]))

\* The activity agent saving the turn of the query after its read, as the
\* hook of backup/multi_agent_travel_planner.py does with create_event.
activity_agent_memory_SavesTurn(st, a, out) ==
    [store |-> [st EXCEPT ![ActorSession(a)] = Append(@, "turn_new")],
     calls |-> <<[agent |-> a, op |-> "get_last_k_turns", key |-> ActorSession(a),
                  turns |-> IF out = "fail" THEN <<>>
                            ELSE get_last_k_turns(st, ActorSession(a), K)],
                 [agent |-> a, op |-> "create_event", key |-> ActorSession(a),
                  turns |-> <<"turn_new">>]>>]

\* What a call of the flight or hotel agent does with the memory: agent()
\* uses neither memory_client nor the ids it was created with.
agent_memory(st, a) == [store |-> st, calls |-> <<>>]

\* What a call of the activity agent does with the memory: one
\* get_recent_context(memory_client, memory_id, actor_id, session_id), a
\* read of the last K turns (out = "fail": the read raises and gives no
\* turns), and no write.
activity_agent_memory(st, a, out) ==
    [store |-> st,
     calls |-> <<[agent |-> a, op |-> "get_last_k_turns", key |-> ActorSession(a),
                  turns |-> IF out = "fail" THEN <<>>
                            ELSE get_last_k_turns(st, ActorSession(a), K)]>>]

\* Line 44: executor.submit(flight_agent, travel_query).
SubmitFlight ==
    /\ mpc = "submit_flight"
    /\ flight_future' = Submit(flight_future, travel_query)
    /\ mpc' = "extract_cities"
    /\ UNCHANGED <<hotel_cities, hotel_futures, activity_future, shown>>

\* Line 45: hotel_cities = extract_cities_with_claude(travel_query), in the
\* main thread; an exception leaves the with block.
ExtractCities ==
    /\ mpc = "extract_cities"
    /\ \E resp \in CityResponses :
          LET r == extract_cities_with_claude(resp)
          IN IF r.raised
                THEN /\ mpc' = "exit_raising"
                     /\ UNCHANGED hotel_cities
                ELSE /\ mpc' = "submit_hotels"
                     /\ hotel_cities' = Strings(r.val)
    /\ UNCHANGED <<flight_future, hotel_futures, activity_future, shown>>

\* Line 46: one executor.submit(hotel_agent, f"Find hotels in {city}") per city.
SubmitHotels ==
    /\ mpc = "submit_hotels"
    /\ hotel_futures' = [i \in 1..Len(hotel_cities) |->
                            Submit(NoFuture, HotelQuery(hotel_cities[i]))]
    /\ mpc' = "submit_activity"
    /\ UNCHANGED <<hotel_cities, flight_future, activity_future, shown>>

\* Line 47: executor.submit(activity_agent, travel_query).
SubmitActivity ==
    /\ mpc = "submit_activity"
    /\ activity_future' = Submit(activity_future, travel_query)
    /\ mpc' = "flight_result"
    /\ UNCHANGED <<hotel_cities, flight_future, hotel_futures, shown>>

\* A worker thread runs flight_agent(travel_query) to its end.
RunFlightAgent ==
    /\ flight_future.state = "pending"
    /\ \E e \in MainAgentEnvs :
          flight_future' = [flight_future EXCEPT
              !.state = "done", !.fault = AgentFault(e),
              !.result = agent(flight_future.arg, StreamOf(e.stream), e.sql, e.rank)]
    /\ store' = agent_memory(store, "flight").store
    /\ mem_log' = mem_log \o agent_memory(store, "flight").calls
    /\ UNCHANGED <<mpc, hotel_cities, hotel_futures, activity_future, shown>>

\* A worker thread runs hotel_agent("Find hotels in <city>") to its end.
RunHotelAgent ==
    /\ \E i \in 1..Len(hotel_futures) :
          /\ hotel_futures[i].state = "pending"
          /\ \E e \in MainAgentEnvs :
                hotel_futures' = [hotel_futures EXCEPT ![i] =
                    [@ EXCEPT !.state = "done", !.fault = AgentFault(e),
                        !.result = agent(hotel_futures[i].arg, StreamOf(e.stream),
                                         e.sql, e.rank)]]
    /\ store' = agent_memory(store, "hotel").store
    /\ mem_log' = mem_log \o agent_memory(store, "hotel").calls
    /\ UNCHANGED <<mpc, hotel_cities, flight_future, activity_future, shown>>

\* A worker thread runs activity_agent(travel_query) to its end.
RunActivityAgent ==
    /\ activity_future.state = "pending"
    /\ \E e \in MainActivityEnvs :
          /\ activity_future' = [activity_future EXCEPT
              !.state = "done", !.fault = ActivityFault(e),
              !.result = ActivityOutcome(
                            activity_agent(activity_future.arg, ActivityEnvOf(e)))]
          /\ store' = activity_agent_memory(store, "activity", e.memory).store
          /\ mem_log' = mem_log \o activity_agent_memory(store, "activity", e.memory).calls
    /\ UNCHANGED <<mpc, hotel_cities, flight_future, hotel_futures, shown>>

\* Lines 49-69: flight_future.result() waits for the future and re-raises
\* what the call raised; otherwise the flight section is rendered.
FlightResult ==
    /\ mpc = "flight_result"
    /\ flight_future.state = "done"
    /\ IF flight_future.result.raised
          THEN /\ mpc' = "exit_raising"
               /\ UNCHANGED shown
          ELSE /\ shown' = Append(shown, [domain |-> "flight", scope_key |-> None,
                                          result |-> flight_future.result])
               /\ mpc' = "hotel_result"
    /\ UNCHANGED <<hotel_cities, flight_future, hotel_futures, activity_future>>

\* Lines 72-92: one turn of the loop over zip(hotel_cities, hotel_futures).
HotelResult ==
    /\ mpc = "hotel_result"
    /\ HotelsShown < Len(hotel_cities)
    /\ LET i == HotelsShown + 1
           future == HotelFutureFor(hotel_futures, i)
       IN /\ future.state = "done"
          /\ IF future.result.raised
                THEN /\ mpc' = "exit_raising"
                     /\ UNCHANGED shown
                ELSE /\ shown' = Append(shown, [domain |-> "hotel",
                                                scope_key |-> hotel_cities[i],
                                                result |-> future.result])
                     /\ UNCHANGED mpc
    /\ UNCHANGED <<hotel_cities, flight_future, hotel_futures, activity_future>>

\* Lines 94-102: the loop is over; activity_future.result() and its section.
ActivityResult ==
    /\ mpc = "hotel_result"
    /\ HotelsShown = Len(hotel_cities)
    /\ activity_future.state = "done"
    /\ IF activity_future.result.raised
          THEN /\ mpc' = "exit_raising"
               /\ UNCHANGED shown
          ELSE /\ shown' = Append(shown, [domain |-> "activity", scope_key |-> None,
                                          result |-> activity_future.result])
               /\ mpc' = "exit"
    /\ UNCHANGED <<hotel_cities, flight_future, hotel_futures, activity_future>>

AllFinished ==
    /\ flight_future.state # "pending"
    /\ activity_future.state # "pending"
    /\ \A i \in 1..Len(hotel_futures) : hotel_futures[i].state # "pending"

\* The end of the with block: ThreadPoolExecutor.__exit__ is
\* shutdown(wait=True), which waits for every submitted call; then main
\* returns, or the exception that left the block propagates.
ExitExecutor ==
    /\ mpc \in {"exit", "exit_raising"}
    /\ AllFinished
    /\ mpc' = IF mpc = "exit" THEN "returned" ELSE "raised"
    /\ UNCHANGED <<hotel_cities, flight_future, hotel_futures, activity_future, shown>>

\* ------------------------------------------------------ specifications
ParserInit ==
    /\ input = <<>>
    /\ prev_event = None
    /\ emitted = <<>>
    /\ pst = "init"
    /\ response = [ok |-> FALSE, text |-> Junk("")]
    /\ xpc = "off"
    /\ xres = Raised
    /\ mpc = "off"
    /\ hotel_cities = <<>>
    /\ flight_future = "none"
    /\ hotel_futures = <<>>
    /\ activity_future = "none"
    /\ shown = <<>>
    /\ store = <<>>
    /\ mem_log = <<>>
    /\ alines = <<>>
    /\ acall = NoCall
    /\ ares = AgentRaised(<<>>)

ParserNext ==
    \/ (PostFails /\ UNCHANGED <<extractVars, mainVars, agentVars, memVars>>)
    \/ (PostOk /\ UNCHANGED <<extractVars, mainVars, agentVars, memVars>>)
    \/ (ReadLine /\ UNCHANGED <<extractVars, mainVars, agentVars, memVars>>)
    \/ (StreamEnds /\ UNCHANGED <<extractVars, mainVars, agentVars, memVars>>)
    \/ (ReadFails /\ UNCHANGED <<extractVars, mainVars, agentVars, memVars>>)

ParserSpec == ParserInit /\ [][ParserNext]_vars

ExtractInit ==
    /\ response \in Responses
    /\ xpc = "ready"
    /\ xres = Raised
    /\ input = <<>>
    /\ prev_event = None
    /\ emitted = <<>>
    /\ pst = "off"
    /\ mpc = "off"
    /\ hotel_cities = <<>>
    /\ flight_future = "none"
    /\ hotel_futures = <<>>
    /\ activity_future = "none"
    /\ shown = <<>>
    /\ store = <<>>
    /\ mem_log = <<>>
    /\ alines = <<>>
    /\ acall = NoCall
    /\ ares = AgentRaised(<<>>)

ExtractNext ==
    \/ (CallExtractTripInfo /\ UNCHANGED <<parserVars, mainVars, agentVars, memVars>>)
    \/ (CallExtractCities /\ UNCHANGED <<parserVars, mainVars, agentVars, memVars>>)

ExtractSpec == ExtractInit /\ [][ExtractNext]_vars

AgentInit ==
    /\ alines = <<>>
    /\ acall = NoCall
    /\ ares = AgentRaised(<<>>)
    /\ input = <<>>
    /\ prev_event = None
    /\ emitted = <<>>
    /\ pst = "off"
    /\ response = [ok |-> FALSE, text |-> Junk("")]
    /\ xpc = "off"
    /\ xres = Raised
    /\ mpc = "off"
    /\ hotel_cities = <<>>
    /\ flight_future = "none"
    /\ hotel_futures = <<>>
    /\ activity_future = "none"
    /\ shown = <<>>
    /\ store = <<>>
    /\ mem_log = <<>>

AgentNext ==
    \/ (ResponseLine /\ UNCHANGED <<parserVars, extractVars, mainVars, memVars>>)
    \/ (CallAgent /\ UNCHANGED <<parserVars, extractVars, mainVars, memVars>>)

AgentSpec == AgentInit /\ [][AgentNext]_vars

Init ==
    /\ mpc = "submit_flight"
    /\ hotel_cities = <<>>
    /\ flight_future = NoFuture
    /\ hotel_futures = <<>>
    /\ activity_future = NoActivityFuture
    /\ shown = <<>>
    /\ input = <<>>
    /\ prev_event = None
    /\ emitted = <<>>
    /\ pst = "off"
    /\ response = [ok |-> FALSE, text |-> Junk("")]
    /\ xpc = "off"
    /\ xres = Raised
    /\ alines = <<>>
    /\ acall = NoCall
    /\ ares = AgentRaised(<<>>)
    /\ store \in InitialStores
    /\ mem_log = <<>>

Next ==
    \/ (SubmitFlight /\ UNCHANGED <<parserVars, extractVars, agentVars, memVars>>)
    \/ (ExtractCities /\ UNCHANGED <<parserVars, extractVars, agentVars, memVars>>)
    \/ (SubmitHotels /\ UNCHANGED <<parserVars, extractVars, agentVars, memVars>>)
    \/ (SubmitActivity /\ UNCHANGED <<parserVars, extractVars, agentVars, memVars>>)
    \/ (RunFlightAgent /\ UNCHANGED <<parserVars, extractVars, agentVars>>)
    \/ (RunHotelAgent /\ UNCHANGED <<parserVars, extractVars, agentVars>>)
    \/ (RunActivityAgent /\ UNCHANGED <<parserVars, extractVars, agentVars>>)
    \/ (FlightResult /\ UNCHANGED <<parserVars, extractVars, agentVars, memVars>>)
    \/ (HotelResult /\ UNCHANGED <<parserVars, extractVars, agentVars, memVars>>)
    \/ (ActivityResult /\ UNCHANGED <<parserVars, extractVars, agentVars, memVars>>)
    \/ (ExitExecutor /\ UNCHANGED <<parserVars, extractVars, agentVars, memVars>>)

Spec == Init /\ [][Next]_vars


\* ------------------------------------------- what the stream should give
\* The label of the last "event:" line before line i (None when there is none).
RECURSIVE PendingKind(_, _)
PendingKind(lines, i) ==
    IF i <= 1 THEN None
    ELSE IF lines[i - 1].tag = "event" THEN lines[i - 1].body
    ELSE PendingKind(lines, i - 1)

\* Line i is a data line classified message.delta.
IsDeltaData(lines, i) ==
    lines[i].tag = "data" /\ PendingKind(lines, i) = "message.delta"

Decodable(b) == b # "bad"

RECURSIVE DeltaEventsUpTo(_, _)
\* One event per decodable message.delta data line among the first n lines,
\* in the order of the lines.
DeltaEventsUpTo(lines, n) ==
    IF n = 0 THEN <<>>
    ELSE DeltaEventsUpTo(lines, n - 1) \o
            (IF IsDeltaData(lines, n) /\ Decodable(lines[n].body)
                THEN <<json_loads(lines[n].body).val>> ELSE <<>>)

DeltaEvents(lines) == DeltaEventsUpTo(lines, Len(lines))

\* The done line, when there is one, is the last line.
DoneOnlyLast(lines) ==
    \A i \in 1..Len(lines) : StartsWithEventDone(lines[i]) => i = Len(lines)

\* Every message.delta data line is decodable.
AllDecodable(lines) ==
    \A i \in 1..Len(lines) : IsDeltaData(lines, i) => Decodable(lines[i].body)

MalformedAt(lines) ==
    {i \in 1..Len(lines) : IsDeltaData(lines, i) /\ ~Decodable(lines[i].body)}

NoErrorIn(evs) == \A i \in 1..Len(evs) : ~evs[i].haserror

\* --------------------------------------------- the aggregate of a run
\* main is over: it returned, or an exception left it.
Finished == mpc \in {"returned", "raised"}

\* The hotel sections rendered, in order.
HotelEntries == SelectSeq(shown, LAMBDA e : e.domain = "hotel")
EntriesOf(domain) == SelectSeq(shown, LAMBDA e : e.domain = domain)

\* A tuple with generated query, ranked summary and rows all None.
FailureShape(r) == r.sql_code = None /\ r.best_option = None /\ r.df = None
\* A tuple with the generated query and its rows (and their ranking).
SuccessShape(r) ==
    /\ r.sql_code # None
    /\ r.df # None
    /\ r.df = "rows" => r.best_option # None

Dispatched(fut) == fut.state # "none"

\* ------------------------------------------------------------ the claims

\* C1: when main is over and the streaming call of exactly one hotel task i
\* failed with a transport error while nothing else failed in the run, main
\* returned and the aggregate has one hotel result per city: the i-th with
\* the failure shape (query, summary and rows None), every other one with
\* the success shape.
C1_OneHotelTransportFailure ==
    Finished =>
        \A i \in 1..Len(hotel_futures) :
            (/\ hotel_futures[i].fault = "transport"
             /\ \A j \in 1..Len(hotel_futures) : j # i => hotel_futures[j].fault = "none"
             /\ flight_future.fault = "none"
             /\ activity_future.fault = "none")
                => /\ mpc = "returned"
                   /\ Len(HotelEntries) = Len(hotel_cities)
                   /\ FailureShape(HotelEntries[i].result)
                   /\ \A j \in 1..Len(hotel_futures) :
                         j # i => SuccessShape(HotelEntries[j].result)

\* C1 witness: two hotel tasks, the first with a transport failure, the
\* second successful, and both results in the aggregate.
C1_Witness ==
    /\ mpc = "returned"
    /\ Len(hotel_cities) = 2
    /\ hotel_futures[1].fault = "transport"
    /\ hotel_futures[2].fault = "none"
    /\ flight_future.fault = "none"
    /\ activity_future.fault = "none"
    /\ Len(HotelEntries) = 2
    /\ FailureShape(HotelEntries[1].result)
    /\ SuccessShape(HotelEntries[2].result)

\* C2: no exception leaves an agent pipeline (every finished call returned
\* a result), and once main is over every dispatched task has exactly one
\* result in the aggregate.
C2_EveryTaskYieldsOneResult ==
    /\ flight_future.state = "done" => ~flight_future.result.raised
    /\ \A i \in 1..Len(hotel_futures) :
          hotel_futures[i].state = "done" => ~hotel_futures[i].result.raised
    /\ activity_future.state = "done" => ~activity_future.result.raised
    /\ Finished =>
          /\ Dispatched(flight_future) => Len(EntriesOf("flight")) = 1
          /\ Len(HotelEntries) = Len(hotel_futures)
          /\ Dispatched(activity_future) => Len(EntriesOf("activity")) = 1

\* C3: when the destination list was resolved to N cities and main is over,
\* one flight task, N hotel tasks (one per city) and one activity task were
\* dispatched and the aggregate has N + 2 entries.
C3_TaskAndEntryCounts ==
    (Finished /\ Dispatched(activity_future)) =>
        /\ Dispatched(flight_future)
        /\ Len(hotel_futures) = Len(hotel_cities)
        /\ \A i \in 1..Len(hotel_cities) :
              /\ Dispatched(hotel_futures[i])
              /\ hotel_futures[i].arg = HotelQuery(hotel_cities[i])
        /\ Len(shown) = Len(hotel_cities) + 2

\* C4: main is over only after every dispatched task is done, and then it
\* has not raised and the result of every dispatched task has been
\* collected into the aggregate, a failed task's among the others'.
C4_JoinCollectsAll ==
    (Finished /\ Dispatched(activity_future)) =>
        /\ AllFinished
        /\ mpc = "returned"
        /\ \E k \in 1..Len(shown) : shown[k].result = flight_future.result
        /\ \A i \in 1..Len(hotel_futures) :
              \E k \in 1..Len(shown) :
                  /\ shown[k].domain = "hotel"
                  /\ shown[k].result = hotel_futures[i].result
        /\ \E k \in 1..Len(shown) : shown[k].result = activity_future.result

\* C5: every result in the aggregate is attributed to the task that
\* produced it: the i-th hotel section is headed by the i-th city and holds
\* the result of the call submitted for that city; the flight and activity
\* sections hold the results of the flight and activity calls.
C5_ResultsAttributed ==
    /\ \A i \in 1..Len(HotelEntries) :
          /\ HotelEntries[i].scope_key = hotel_cities[i]
          /\ HotelEntries[i].result = hotel_futures[i].result
          /\ HotelEntries[i].result.query = HotelQuery(HotelEntries[i].scope_key)
    /\ \A k \in 1..Len(shown) :
          /\ shown[k].domain = "flight" =>
                /\ shown[k].result = flight_future.result
                /\ shown[k].result.query = travel_query
          /\ shown[k].domain = "activity" =>
                /\ shown[k].result = activity_future.result
                /\ shown[k].result.query = travel_query

\* C5 witness: two hotel sections for two different cities with different
\* results, each the result of its own city's call.
C5_Witness ==
    /\ mpc = "returned"
    /\ Len(HotelEntries) = 2
    /\ HotelEntries[1].scope_key = "Mumbai"
    /\ HotelEntries[2].scope_key = "Pune"
    /\ FailureShape(HotelEntries[1].result)
    /\ SuccessShape(HotelEntries[2].result)
    /\ HotelEntries[2].result.query = HotelQuery("Pune")

\* C6: once the parser has read the "event: done" line it has terminated:
\* the done line is the last line read and the generator has ended, so no
\* later line is read and nothing is emitted for one.
C6_DoneTerminatesParse ==
    \A i \in 1..Len(input) :
        StartsWithEventDone(input[i]) =>
            (i = Len(input) /\ emitted = DeltaEventsUpTo(input, i))

\* C7: for a well-formed stream terminated by a done event the parser has
\* emitted exactly one event per message.delta data line, in input order,
\* and has ended at the done line without waiting for the transport (end of
\* body, or a read timeout and its error event).
C7_WellFormedDoneStream ==
    (/\ Len(input) > 0
     /\ StartsWithEventDone(input[Len(input)])
     /\ DoneOnlyLast(input)
     /\ AllDecodable(input))
        => (pst = "done" /\ emitted = DeltaEvents(input))

\* C8: with a single undecodable data line among otherwise well-formed
\* lines, and no transport failure, the parser has emitted exactly the
\* events of the decodable message.delta data lines before and after it,
\* nothing for the malformed line and no error event, and it has not
\* stopped reading because of the malformed line.
C8_MalformedLineSkipped ==
    (/\ Cardinality(MalformedAt(input)) = 1
     /\ DoneOnlyLast(input)
     /\ pst # "failed")
        => /\ emitted = DeltaEvents(input)
           /\ NoErrorIn(emitted)
           /\ pst \in {"reading", "eof", "done"}
           /\ pst = "done" => StartsWithEventDone(input[Len(input)])

\* C8 witness: a malformed data line with a decodable message.delta data
\* line before it and one after it, both emitted.
C8_Witness ==
    /\ Len(input) = 4
    /\ MalformedAt(input) = {3}
    /\ IsDeltaData(input, 2) /\ Decodable(input[2].body)
    /\ IsDeltaData(input, 4) /\ Decodable(input[4].body)
    /\ emitted = <<json_loads(input[2].body).val, json_loads(input[4].body).val>>
    /\ pst = "reading"

\* C9: a connection failure at the request or while a line is awaited gives
\* the caller exactly one error event, as the last event, after the events
\* of the lines read before the failure in input order; the generator then
\* is finished and no exception has left it.
C9_TransportFailureIsErrorEvent ==
    /\ pst # "raised"
    /\ pst = "failed" =>
          /\ Len(emitted) >= 1
          /\ emitted[Len(emitted)] = ErrorDict
          /\ SubSeq(emitted, 1, Len(emitted) - 1) = DeltaEvents(input)
          /\ NoErrorIn(SubSeq(emitted, 1, Len(emitted) - 1))
          /\ ~ENABLED ParserNext

\* C9 witness: the connection fails after an event has been emitted.
C9_Witness ==
    /\ pst = "failed"
    /\ Len(emitted) = 2
    /\ emitted[2] = ErrorDict
    /\ Len(input) >= 2

\* The output text is syntactically a mapping or a list literal.
IsMappingOrListText(text) == text.k \in {"dict", "list"}

\* C10: for a model output text that is not syntactically a mapping or list
\* literal, trip-intent extraction returns the default mapping and city
\* extraction returns the empty list; neither raises.
C10_NonLiteralGivesDefault ==
    (response.ok /\ ~IsMappingOrListText(response.text)) =>
        /\ xpc = "trip" => xres = Returned(DefaultTripInfo)
        /\ xpc = "cities" => xres = Returned(ListLit(<<>>))

\* C10 witness: trip-intent extraction was called on prose, and city
\* extraction on a tuple literal.
C10_Witness ==
    \/ /\ xpc = "trip"
       /\ response = [ok |-> TRUE, text |-> Junk("I cannot determine this.")]
       /\ xres = Returned(DefaultTripInfo)
    \/ /\ xpc = "cities"
       /\ response = [ok |-> TRUE, text |-> TupleLit(<<StrLit("Mumbai")>>)]
       /\ xres = Returned(ListLit(<<>>))

\* ------------------------------------------------ round trip of trip intent
TripKeys == {"source_city", "dest_cities", "duration"}

\* The value written for key in the pairs of a mapping literal.
WrittenFor(ps, key) ==
    (CHOOSE pr \in {ps[i] : i \in 1..Len(ps)} : pr.s = key).items[1]

\* The text is exactly a valid mapping literal with the three keys, each
\* written once.
IsTripIntentText(text) ==
    /\ text.k = "dict"
    /\ Wellformed(text)
    /\ Len(text.items) = 3
    /\ {text.items[i].s : i \in 1..Len(text.items)} = TripKeys

\* C11: for a model output text that is exactly a valid mapping literal with
\* the three keys source_city, dest_cities and duration, trip-intent
\* extraction returns a mapping of those three keys, each with the value
\* written for it in the text.
C11_ValidMappingRoundTrip ==
    (xpc = "trip" /\ response.ok /\ IsTripIntentText(response.text)) =>
        /\ ~xres.raised
        /\ xres.val.k = "dict"
        /\ Len(xres.val.items) = 3
        /\ \A key \in TripKeys :
             /\ \E i \in 1..Len(xres.val.items) : xres.val.items[i].s = key
             /\ Get(xres.val, key, Absent) = WrittenFor(response.text.items, key)

\* C11 witness: source Delhi, destinations [Mumbai, Pune], duration 5 went
\* through trip-intent extraction and came back as given.
C11_Witness ==
    /\ xpc = "trip"
    /\ response.ok
    /\ response.text = DictLit(<<Pair("source_city", StrLit("Delhi")),
            Pair("dest_cities", ListLit(<<StrLit("Mumbai"), StrLit("Pune")>>)),
            Pair("duration", IntLit("5"))>>)
    /\ Get(xres.val, "source_city", Absent) = StrLit("Delhi")
    /\ Get(xres.val, "dest_cities", Absent) = ListLit(<<StrLit("Mumbai"), StrLit("Pune")>>)
    /\ Get(xres.val, "duration", Absent) = IntLit("5")
    /\ ~xres.raised

\* --------------------------------------------- shape of the parsed literal
\* The expected shape of trip intent: the three keys, a text source, a list
\* of texts as destinations, a whole number or None as duration.
TripShape(text) ==
    /\ text.k = "dict"
    /\ {text.items[i].s : i \in 1..Len(text.items)} = TripKeys
    /\ \A i \in 1..Len(text.items) :
         LET v == text.items[i].items[1]
         IN CASE text.items[i].s = "source_city" -> v.k = "str"
              [] text.items[i].s = "dest_cities" ->
                    /\ v.k = "list"
                    /\ \A j \in 1..Len(v.items) : v.items[j].k = "str"
              [] OTHER -> v.k \in {"int", "none"}

\* The expected shape of a city list: a list whose elements are all text.
CitiesShape(text) ==
    /\ text.k = "list"
    /\ \A i \in 1..Len(text.items) : text.items[i].k = "str"

RECURSIVE LastWritten(_, _, _)
\* The value of the last pair written for key (found when there is none).
LastWritten(ps, key, found) ==
    IF ps = <<>> THEN found
    ELSE LastWritten(Tail(ps), key,
                     IF Head(ps).s = key THEN Head(ps).items[1] ELSE found)

\* The mapping v holds what the mapping literal text says: the same keys,
\* each with the value written (last) for it.
SameMapping(v, text) ==
    /\ v.k = "dict"
    /\ {v.items[i].s : i \in 1..Len(v.items)}
         = {text.items[i].s : i \in 1..Len(text.items)}
    /\ \A i \in 1..Len(v.items) :
         /\ v.items[i].items[1] = LastWritten(text.items, v.items[i].s, Absent)
         /\ \A j \in 1..Len(v.items) : v.items[j].s = v.items[i].s => j = i

IsErrorData(lines, i) ==
    lines[i].tag = "data" /\ PendingKind(lines, i) = "error"

\* C14: once a data line whose pending event kind is error has been read,
\* the parser has emitted an ErrorEvent, which the consumer of the stream
\* observes.
C14_ErrorDataEmitsErrorEvent ==
    (\E i \in 1..Len(input) : IsErrorData(input, i)) =>
        \E k \in 1..Len(emitted) : emitted[k].haserror

\* ------------------------------------------- classification of data lines
\* C20: every data line is classified by the most recently seen event label
\* and by nothing else: a blank line leaves the pending kind (and the
\* events) as they are, a data line under a label other than message.delta
\* or error, or before any label, emits nothing and does not end the
\* parse, and a decodable data line under message.delta emits its payload.
C20_ClassifiedByLastLabel ==
    [][(pst = "reading" /\ Len(input') = Len(input) + 1) =>
        LET line == input'[Len(input')]
            kind == PendingKind(input', Len(input'))
        IN /\ line.tag = "blank" =>
                /\ prev_event' = prev_event
                /\ emitted' = emitted
                /\ pst' = "reading"
           /\ line.tag = "data" =>
                /\ prev_event = kind
                /\ prev_event' = kind
                /\ kind \notin {"message.delta", "error"} =>
                        (emitted' = emitted /\ pst' = "reading")
                /\ (kind = "message.delta" /\ Decodable(line.body)) =>
                        emitted' = Append(emitted, json_loads(line.body).val)]_vars

\* C20 witness: a data line before any label emitted nothing, and a data
\* line was classified message.delta across a blank line.
C20_Witness ==
    /\ Len(input) = 4
    /\ input[1] = DataLine("hi")
    /\ input[2] = EventLine("message.delta")
    /\ input[3].tag = "blank"
    /\ input[4] = DataLine("tool1")
    /\ emitted = <<Payload(<<ToolItem("interp1", "SELECT 1")>>)>>
    /\ prev_event = "message.delta"

\* ------------------------------------------ what one agent call should give
\* The events the stream of the call gave to the agent.
EventsGiven == cortex_analyst_sql_stream(StreamGiven(alines, acall))

RECURSIVE ItemsOf(_)
\* The content items of the payloads, in arrival order.
ItemsOf(evs) ==
    IF evs = <<>> THEN <<>> ELSE Head(evs).content \o ItemsOf(Tail(evs))

RECURSIVE TextsOf(_)
\* The texts of the text items, in arrival order.
TextsOf(items) ==
    IF items = <<>> THEN <<>>
    ELSE (IF Head(items).type = "text" THEN <<Head(items).text>> ELSE <<>>)
            \o TextsOf(Tail(items))

\* The interpretations and the generated queries the tool results carry.
InterpsOf(items) ==
    {items[i].jtext : i \in {j \in 1..Len(items) :
        items[j].type = "tool_results" /\ items[j].jtext # None}}
QueriesOf(items) ==
    {items[i].jsql : i \in {j \in 1..Len(items) :
        items[j].type = "tool_results" /\ items[j].jsql # None}}

\* An interpretation gathered from these items (None when none carries one).
GatheredInterp(v, items) ==
    IF InterpsOf(items) = {} THEN v = None ELSE v \in InterpsOf(items)

\* The first error event is at k, after payloads the agent could read.
FirstErrorAt(evs, k) ==
    /\ k \in 1..Len(evs)
    /\ evs[k].haserror
    /\ \A j \in 1..(k - 1) : evs[j].isobj /\ ~evs[j].haserror

\* The loop over the stream reached its end: every event was a readable
\* payload and none an error event.
Drained(evs) == \A k \in 1..Len(evs) : evs[k].isobj /\ ~evs[k].haserror

\* C15: when the flight or hotel pipeline observes an ErrorEvent while
\* draining the stream it ends at once, returning the text and the
\* interpretation accumulated so far with generated query, ranked summary
\* and result rows null, and it makes no downstream query and no ranking
\* call.
C15_ErrorEventEndsPipeline ==
    (acall # NoCall) =>
        \A k \in 1..Len(EventsGiven) : FirstErrorAt(EventsGiven, k) =>
            LET before == ItemsOf(SubSeq(EventsGiven, 1, k - 1))
            IN /\ ~ares.raised
               /\ ares.streamed_text = TextsOf(before)
               /\ GatheredInterp(ares.interpretation, before)
               /\ ares.sql_code = None
               /\ ares.best_option = None
               /\ ares.df = None
               /\ ~ares.ran_sql
               /\ ~ares.ran_rank

\* C15 witness: the connection broke after a text and a tool result; the
\* call returned them without the query and without a downstream call.
C15_Witness ==
    /\ alines = <<EventLine("message.delta"), DataLine("hi"), DataLine("tool1")>>
    /\ acall.tail = "fail"
    /\ ~ares.raised
    /\ ares.streamed_text = <<"Hi">>
    /\ ares.interpretation = "interp1"
    /\ ares.sql_code = None
    /\ ~ares.ran_sql

RECURSIVE LastInterp(_, _)
RECURSIVE LastQuery(_, _)
\* The interpretation (the query) of the last tool result that carries one.
LastInterp(items, i) ==
    IF i = 0 THEN None
    ELSE IF items[i].type = "tool_results" /\ items[i].jtext # None THEN items[i].jtext
    ELSE LastInterp(items, i - 1)
LastQuery(items, i) ==
    IF i = 0 THEN None
    ELSE IF items[i].type = "tool_results" /\ items[i].jsql # None THEN items[i].jsql
    ELSE LastQuery(items, i - 1)

\* The generated query the stream leaves captured at its end: the value of
\* the last tool result that carries a query (None when none does).
CapturedQuery == LastQuery(ItemsOf(EventsGiven), Len(ItemsOf(EventsGiven)))

\* What the pipeline does when the query execution fails: null result set,
\* no ranking call, and the text, interpretation and query gathered are
\* returned.
QueryFailureDegrades ==
    (ares.ran_sql /\ acall.sql = "fail") =>
        /\ ~ares.raised
        /\ ares.df = None
        /\ ~ares.ran_rank
        /\ ares.best_option = None
        /\ ares.streamed_text = TextsOf(ItemsOf(EventsGiven))
        /\ GatheredInterp(ares.interpretation, ItemsOf(EventsGiven))
        /\ ares.sql_code \in QueriesOf(ItemsOf(EventsGiven))

\* C16 as stated: the downstream query is executed if and only if the
\* stream produced a generated query; a failed query execution gives a null
\* result set, no ranking call, and the gathered text, interpretation and
\* query are returned.
C16_QueryRunIffProduced ==
    (acall # NoCall) =>
        /\ ares.ran_sql <=> (QueriesOf(ItemsOf(EventsGiven)) # {})
        /\ QueryFailureDegrades

\* C16 amended: the downstream query is executed if and only if the loop
\* over the stream reached the end of the stream (no error event ended the
\* pipeline before) with a non-empty generated query captured; a failed query
\* execution gives a null result set, no ranking call, and the gathered
\* text, interpretation and query are returned.
C16_QueryRunIffDrainedWithQuery ==
    (acall # NoCall) =>
        /\ ares.ran_sql <=>
             (Drained(EventsGiven) /\ CapturedQuery \notin {None, ""})
        /\ QueryFailureDegrades

\* C16 witness: the stream gave a query, its execution failed, and the call
\* returned text, interpretation and query with no rows and no ranking.
C16_Witness ==
    /\ alines = <<EventLine("message.delta"), DataLine("hi"), DataLine("tool1")>>
    /\ acall.sql = "fail"
    /\ ares.ran_sql
    /\ ~ares.raised
    /\ ares.sql_code = "SELECT 1"
    /\ ares.interpretation = "interp1"
    /\ ares.streamed_text = <<"Hi">>
    /\ ares.df = None
    /\ ~ares.ran_rank

\* C17: the ranking call is made only when the result set is non-empty, and
\* a failure of the ranking call is no failure of the pipeline: the call
\* returns a null ranked summary with the streamed text, interpretation,
\* generated query and result rows intact.
C17_RankingFailureDegrades ==
    (acall # NoCall) =>
        /\ ares.ran_rank => (ares.ran_sql /\ acall.sql = "rows")
        /\ (ares.ran_rank /\ acall.rank = "fail") =>
             /\ ~ares.raised
             /\ ares.best_option = None
             /\ ares.df = "rows"
             /\ ares.sql_code \in QueriesOf(ItemsOf(EventsGiven))
             /\ ares.streamed_text = TextsOf(ItemsOf(EventsGiven))
             /\ GatheredInterp(ares.interpretation, ItemsOf(EventsGiven))

RECURSIVE FirstCarrying(_, _)
\* The first tool result that carries a generated query.
FirstCarrying(items, i) ==
    IF items[i].type = "tool_results" /\ items[i].jsql # None THEN items[i]
    ELSE FirstCarrying(items, i + 1)

\* The call returned with a query it captured from a stream it drained.
ReturnedWithQuery == acall # NoCall /\ ~ares.raised /\ ares.ran_sql

\* C18 as stated: when the stream carries several tool results with a
\* generated query, the generated query and interpretation returned are
\* those of the first of them; later ones do not overwrite them.
C18_FirstQueryWins ==
    ReturnedWithQuery =>
        LET first == FirstCarrying(ItemsOf(EventsGiven), 1)
        IN /\ ares.sql_code = first.jsql
           /\ ares.interpretation = first.jtext

\* C18 amended: when the stream carries several tool results and the
\* pipeline returns a generated query, that query is the value of the last
\* tool result carrying a query and the interpretation that of the last
\* tool result carrying an interpretation; later payloads overwrite earlier
\* ones.
C18_LastValuesWin ==
    ReturnedWithQuery =>
        LET items == ItemsOf(EventsGiven)
        IN /\ ares.sql_code = LastQuery(items, Len(items))
           /\ ares.interpretation = LastInterp(items, Len(items))

\* C18 witness: two tool results with a query, then one with an
\* interpretation only; the call returned the second query and the third
\* interpretation.
C18_Witness ==
    /\ alines = <<EventLine("message.delta"), DataLine("tool1"),
                  DataLine("tool2"), DataLine("tool_text")>>
    /\ ReturnedWithQuery
    /\ ares.sql_code = "SELECT 2"
    /\ ares.interpretation = "interp3"

\* ------------------------------------------------- the memory read
\* C12: a failure of the memory read (get_last_k_turns) never fails the
\* caller: the agent goes on with an empty context and returns its result.
C12_MemoryReadFailureAbsorbed ==
    (activity_future.state = "done" /\ activity_future.fault = "memory") =>
        ~activity_future.result.raised

\* ------------------------------------------------- one trip intent
\* C19: the trip intent of a query is resolved once and shared: the cities
\* the hotel tasks are created for are the cities the activity task
\* searches.
C19_TripIntentShared ==
    (activity_future.state = "done" /\ ~activity_future.result.raised) =>
        activity_future.result.searched = hotel_cities

\* ------------------------------------------ the fields of a returned result
\* C22: in every result a flight or hotel pipeline returns, the ranked
\* summary is non-null only if the result rows are non-null and non-empty,
\* and the result rows are non-null only if the generated query is non-null
\* and non-empty; so a result with a null generated query has a null ranked
\* summary and null result rows.
C22_ResultFieldsNested ==
    (acall # NoCall /\ ~ares.raised) =>
        /\ ares.best_option # None => ares.df = "rows"
        /\ ares.df # None => (ares.sql_code # None /\ ares.sql_code # "")
        /\ ares.sql_code = None => (ares.best_option = None /\ ares.df = None)

\* C22 witness: a call returned a ranked summary with rows and a query,
\* after a stream that carried text and a tool result.
C22_Witness ==
    /\ alines = <<EventLine("message.delta"), DataLine("hi"), DataLine("tool2")>>
    /\ acall.sql = "rows"
    /\ acall.rank = "ok"
    /\ ~ares.raised
    /\ ares.best_option = "best"
    /\ ares.df = "rows"
    /\ ares.sql_code = "SELECT 2"

\* ------------------------------------------------ actors and their memory
\* C21: the flight, hotel and activity agents of one conversation have
\* pairwise distinct actor_ids and one shared session_id, so that no call an
\* agent makes on the memory is on the history of another agent.
C21_DistinctActorsSharedSession ==
    (activity_future.state = "done") =>
        /\ \A a, b \in Agents :
             /\ a # b => AgentIds[a].actor_id # AgentIds[b].actor_id
             /\ AgentIds[a].session_id = AgentIds[b].session_id
        /\ \A i \in 1..Len(mem_log) : \A b \in Agents \ {mem_log[i].agent} :
             mem_log[i].key # ActorSession(b)

\* C23: a run of the orchestrator leaves the memory unchanged: no step of
\* it, of a task that succeeds or of one that fails, appends a turn, and
\* get_last_k_turns gives for every (actor_id, session_id) the same turns
\* after the step as before it.
C23_RunLeavesMemoryUnchanged ==
    [][/\ \A key \in DOMAIN store :
            /\ store'[key] = store[key]
            /\ get_last_k_turns(store', key, K) = get_last_k_turns(store, key, K)
       /\ DOMAIN store' = DOMAIN store
       /\ \A i \in 1..Len(mem_log') : mem_log'[i].op # "create_event"]_vars

\* C23 witness: a complete run, with earlier turns in the memory, in which
\* the activity task read them and the flight task failed while the
\* activity task succeeded.
C23_Witness ==
    /\ mpc = "raised"
    /\ flight_future.state = "done"
    /\ flight_future.result.raised
    /\ activity_future.state = "done"
    /\ ~activity_future.result.raised
    /\ \A i \in 1..Len(hotel_futures) : hotel_futures[i].state = "done"
    /\ store[<<ACTOR_ID, SESSION_ID>>] = <<"turn1">>
    /\ mem_log = <<[agent |-> "activity", op |-> "get_last_k_turns",
                    key |-> <<ACTOR_ID, SESSION_ID>>, turns |-> <<"turn1">>]>>

====
